---------------------------- MODULE Spec2Model ----------------------------
(***************************************************************************)
(* Model of dev_tools/mock_server_lidar.py: the Kanavi VL-series packet    *)
(* parser, the multicast receive threads, the rate-limited callback that   *)
(* hands frames to the event loop through data_queue, the broadcast drain  *)
(* tasks and the per-connection handlers with their scan commands.         *)
(*                                                                         *)
(* Units.  Times are milliseconds.  A distance is kept in hundredths of a  *)
(* metre (the code's distance_d + distance_f / 100.0, times 100).  An      *)
(* azimuth is kept as the numerator of the code's value over the           *)
(* denominator 2 * (expected_points - 1).                                  *)
(***************************************************************************)
EXTENDS Integers, Sequences, FiniteSets, TLC

VARIABLES
    receiving,          \* KanaviWebSocketServer.receiving
    running,            \* KanaviLidarReceiver.running
    socket,             \* KanaviLidarReceiver.socket: 0 is None, else the thread that made it
    open_sockets,       \* the sockets (named by their maker) not yet closed
    rcv,                \* the start_receiving threads: position and callback locals
    last_send_time,     \* KanaviWebSocketServer.last_send_time
    data_queue,         \* KanaviWebSocketServer.data_queue
    connected_clients,  \* KanaviWebSocketServer.connected_clients
    sess,               \* the handle_client coroutines: position and connection state
    drain,              \* the broadcast_data_loop tasks: position and fan-out locals
    now,                \* time.time()
    nframes,            \* history: frames handed to put_nowait so far
    event,              \* history: the control message the last step handled, if any
    pkt,                \* the datagram given to parse_kanavi_packet
    result              \* what parse_kanavi_packet returned for pkt

vars ==
    <<receiving, running, socket, open_sockets, rcv, last_send_time, data_queue,
      connected_clients, sess, drain, now, nframes, event, pkt, result>>

sysvars ==
    <<receiving, running, socket, open_sockets, rcv, last_send_time, data_queue,
      connected_clients, sess, drain, now, nframes, event>>

(***************************************************************************)
(* Bounds of the model.                                                    *)
(***************************************************************************)
MaxScans == 2

MaxSessions == 2

MaxFrames == 2

MaxTicks == 2

(***************************************************************************)
(* Program constants.                                                      *)
(***************************************************************************)
StartMarker == 250

DistanceTag == 221

ChannelTag == 192

HeaderLen == 7

MinPacketLen == 8

PointsR4 == 400

PointsOther == 360

MinIntervalMs == 50

maxsize == 0

\* the clock of the model advances in half intervals, and starts well after 0
\* (time.time() is seconds since 1970; last_send_time defaults to 0.0)
TickMs == MinIntervalMs \div 2

StartTime == 20 * MinIntervalMs

\* Python's None, as parse_kanavi_packet returns it, and the test for it
None == [none |-> TRUE]

IsNone(r) == DOMAIN r = {"none"}

\* the value of `result` before parse_kanavi_packet has been called
Pending == [pending |-> TRUE]

IsPending(r) == DOMAIN r = {"pending"}

(***************************************************************************)
(* KanaviLidarParser                                                       *)
(***************************************************************************)
Byte == 0..255

\* data[i] of a Python bytes object (0-based)
At(data, i) == data[i + 1]

\* a ^ b on non-negative integers
RECURSIVE Xor(_, _)
Xor(a, b) ==
    IF a = 0 THEN b
    ELSE IF b = 0 THEN a
    ELSE (((a % 2) + (b % 2)) % 2) + (2 * Xor(a \div 2, b \div 2))

\* struct.unpack('>H', data[i:i+2])[0]
UnpackBE16(data, i) == (At(data, i) * 256) + At(data, i + 1)

HexDigit == <<"0", "1", "2", "3", "4", "5", "6", "7", "8", "9", "A", "B", "C", "D", "E", "F">>

\* f"{b:02X}"
Hex2(b) == HexDigit[(b \div 16) + 1] \o HexDigit[(b % 16) + 1]

\* self.lidar_models.get(product_line, {"name": "Unknown_XX", ...})
lidar_models(product_line) ==
    CASE product_line = 3 -> [name |-> "VL-R2", channels |-> 2, hfov |-> 120, interface |-> "Ethernet"]
      [] product_line = 6 -> [name |-> "VL-R4", channels |-> 4, hfov |-> 100, interface |-> "Ethernet"]
      [] product_line = 7 -> [name |-> "VL-R270", channels |-> 1, hfov |-> 270, interface |-> "Ethernet"]
      [] OTHER -> [name |-> "Unknown_" \o Hex2(product_line), channels |-> 4, hfov |-> 360, interface |-> "Unknown"]

expected_points(product_line) == IF product_line = 6 THEN PointsR4 ELSE PointsOther

\* for i in range(7): calculated_checksum ^= data[i]
RECURSIVE XorRange(_, _)
XorRange(data, n) == IF n = 0 THEN 0 ELSE Xor(XorRange(data, n - 1), At(data, n - 1))

calculated_checksum(data) == XorRange(data, HeaderLen)

\* the detection value read for point i of packet_data
Detection(packet_data, expected, i) ==
    LET detection_offset == expected * 2
        extra == Len(packet_data) - detection_offset
    IN  IF Len(packet_data) > expected * 2 /\ i < extra
        THEN At(packet_data, detection_offset + (i % extra))
        ELSE 0

\* (faulty variant: the point carries the channel byte, tag included)
PointAtRawChannel(packet_data, actual_channel, hfov, expected, i) ==
    [channel |-> ChannelTag + actual_channel,
     distance |-> (100 * At(packet_data, i * 2)) + At(packet_data, (i * 2) + 1),
     azimuth |-> IF expected > 1 THEN (2 * i * hfov) - (hfov * (expected - 1)) ELSE 0,
     detection |-> Detection(packet_data, expected, i),
     point_index |-> i]

\* the point the loop body builds for index i (appended only when distance > 0)
PointAt(packet_data, actual_channel, hfov, expected, i) ==
    [channel |-> actual_channel,
     distance |-> (100 * At(packet_data, i * 2)) + At(packet_data, (i * 2) + 1),
     azimuth |-> IF expected > 1 THEN (2 * i * hfov) - (hfov * (expected - 1)) ELSE 0,
     detection |-> Detection(packet_data, expected, i),
     point_index |-> i]

\* "if distance > 0" (faulty variant: a zero distance is kept)
IsValidPointOrZero(p) == p.distance >= 0

IsValidPoint(p) == p.distance > 0

\* the points list after the distance loop
ParsePoints(packet_data, actual_channel, hfov, expected) ==
    IF Len(packet_data) >= expected * 2
    THEN LET iters == Cardinality({i \in 0..(expected - 1) : (i * 2) + 1 < Len(packet_data)})
         IN  SelectSeq([k \in 1..iters |->
                          PointAt(packet_data, actual_channel, hfov, expected, k - 1)],
                       IsValidPoint)
    ELSE <<>>

\* the checksum test on the header bytes (faulty variant: the last header byte is left out)
ChecksumOkShort(data, checksum) == XorRange(data, HeaderLen - 1) = checksum

ChecksumOk(data, checksum) == calculated_checksum(data) = checksum

\* "(channel & 0xF0) != 0xC0" (faulty variant: the test is left out)
ChannelTagOkAny(channel) == TRUE

ChannelTagOk(channel) == (channel \div 16) * 16 = ChannelTag

parse_kanavi_packet(data) ==
    IF Len(data) < MinPacketLen THEN None
    ELSE IF At(data, 0) # StartMarker THEN None
    ELSE LET product_line == At(data, 1)
             lidar_id == At(data, 2)
             command == UnpackBE16(data, 3)
             data_length == UnpackBE16(data, 5)
             channel == command % 256
             actual_channel == channel % 16
             data_start == HeaderLen
             data_end == data_start + data_length
         IN  IF (command \div 256) # DistanceTag THEN None
             ELSE IF ~ChannelTagOk(channel) THEN None
             ELSE IF Len(data) < data_end + 1 THEN None
             ELSE LET packet_data == SubSeq(data, data_start + 1, data_end)
                      checksum == At(data, data_end)
                      model_info == lidar_models(product_line)
                      points == ParsePoints(packet_data, actual_channel, model_info.hfov,
                                            expected_points(product_line))
                  IN  IF ~ChecksumOk(data, checksum) THEN None
                      ELSE [points |-> points,
                            product_line |-> product_line,
                            lidar_id |-> lidar_id,
                            channel |-> actual_channel,
                            model_info |-> model_info,
                            num_points |-> Len(points),
                            raw_command |-> command,
                            packet_size |-> Len(data),
                            data_length |-> Len(packet_data)]

(***************************************************************************)
(* Datagrams given to the parser.                                          *)
(***************************************************************************)
\* a payload of n bytes repeating the pair (d, f)
Payload(n, d, f) == [i \in 1..n |-> IF i % 2 = 1 THEN d ELSE f]

\* a datagram with the given header fields and payload, and a checksum byte
\* off the right one by XOR `flip`
MkPacket(start, product_line, lidar_id, cmd_hi, cmd_lo, declared, payload, flip) ==
    LET header == <<start, product_line, lidar_id, cmd_hi, cmd_lo,
                    declared \div 256, declared % 256>>
    IN  header \o payload \o <<Xor(XorRange(header, HeaderLen), flip)>>

(***************************************************************************)
(* Datagrams the receive threads get from the multicast group.             *)
(***************************************************************************)
FullPayload == Payload(2 * PointsOther, 1, 50)

DgramBadChecksum == MkPacket(StartMarker, 3, 1, DistanceTag, ChannelTag, 0, <<>>, 1)

DgramNoPoints == MkPacket(StartMarker, 3, 1, DistanceTag, ChannelTag, 0, <<>>, 0)

DgramCh0 == MkPacket(StartMarker, 3, 1, DistanceTag, ChannelTag, 2 * PointsOther, FullPayload, 0)

DgramCh1 == MkPacket(StartMarker, 3, 1, DistanceTag, ChannelTag + 1, 2 * PointsOther, FullPayload, 0)

SysDatagrams == {DgramBadChecksum, DgramNoPoints, DgramCh0, DgramCh1}

\* self.parser.parse_kanavi_packet(data) for each of them
SysParsed == [d \in SysDatagrams |-> parse_kanavi_packet(d)]

(***************************************************************************)
(* State of the server.                                                    *)
(***************************************************************************)
Threads == 1..MaxScans

Sessions == 1..MaxSessions

Channels == 0..15

NoFrame == [seq |-> 0, channel |-> -1, pointsize |-> 0, time |-> 0]

RcvNone == [pc |-> "none", channel |-> -1, pointsize |-> 0, current_time |-> 0]

NoEvent == [from |-> 0, type |-> "none", was_receiving |-> FALSE]

\* session c's message of the given type is handled in this step
Handled(c, type) == [from |-> c, type |-> type, was_receiving |-> receiving]

DrainNone ==
    [pc |-> "none", frame |-> NoFrame, cur |-> 0, todo |-> {}, sent |-> <<>>,
     disconnected |-> {}, snap |-> {}, dirty |-> FALSE]

SysInit ==
    /\ receiving = FALSE
    /\ running = FALSE
    /\ socket = 0
    /\ open_sockets = {}
    /\ rcv = [t \in Threads |-> RcvNone]
    /\ last_send_time = [c \in Channels |-> 0]
    /\ data_queue = <<>>
    /\ connected_clients = {}
    /\ sess = [c \in Sessions |-> [pc |-> "new", net |-> "closed"]]
    /\ drain = [k \in Threads |-> DrainNone]
    /\ now = StartTime
    /\ nframes = 0
    /\ event = NoEvent

(***************************************************************************)
(* KanaviLidarReceiver.start_receiving, one thread per start_scan.         *)
(***************************************************************************)
\* socket(), bind, IP_ADD_MEMBERSHIP, settimeout, then self.running = True;
\* when one of them raises, the except and finally clauses end the thread
ThreadInit(t, ok) ==
    /\ rcv[t].pc = "init"
    /\ socket' = t
    /\ open_sockets' = IF ok THEN open_sockets \cup {t} ELSE open_sockets \ {t}
    /\ running' = IF ok THEN TRUE ELSE running
    /\ rcv' = [rcv EXCEPT ![t].pc = IF ok THEN "loop" ELSE "failed"]
    /\ UNCHANGED <<receiving, last_send_time, data_queue, connected_clients, sess, drain,
                   now, nframes, pkt, result>>
    /\ event' = NoEvent

\* while self.running: ... and, when it is false, the finally clause
LoopTest(t) ==
    /\ rcv[t].pc = "loop"
    /\ IF running
       THEN /\ rcv' = [rcv EXCEPT ![t].pc = "recv"]
            /\ UNCHANGED open_sockets
       ELSE /\ rcv' = [rcv EXCEPT ![t].pc = "done"]
            /\ open_sockets' = open_sockets \ {socket}
    /\ UNCHANGED <<receiving, running, socket, last_send_time, data_queue,
                   connected_clients, sess, drain, now, nframes,
                   pkt, result>>
    /\ event' = NoEvent

\* recvfrom raises socket.timeout (continue), or another error (printed)
RecvNothing(t) ==
    /\ rcv[t].pc = "recv"
    /\ rcv' = [rcv EXCEPT ![t].pc = "loop"]
    /\ UNCHANGED <<receiving, running, socket, open_sockets, last_send_time,
                   data_queue, connected_clients, sess, drain, now, nframes,
                   pkt, result>>
    /\ event' = NoEvent

\* recvfrom, the parser or the callback raises an exception other than
\* socket.timeout: "except Exception" prints it and the loop goes on
\* (faulty variant: the exception ends the thread through the finally clause)
RecvErrorFatal(t) ==
    /\ rcv[t].pc = "recv"
    /\ rcv' = [rcv EXCEPT ![t].pc = "done"]
    /\ open_sockets' = open_sockets \ {socket}
    /\ UNCHANGED <<receiving, running, socket, last_send_time,
                   data_queue, connected_clients, sess, drain, now, nframes,
                   pkt, result>>
    /\ event' = [from |-> t, type |-> "recv_error", was_receiving |-> receiving]

RecvError(t) ==
    /\ rcv[t].pc = "recv"
    /\ rcv' = [rcv EXCEPT ![t].pc = "loop"]
    /\ UNCHANGED <<receiving, running, socket, open_sockets, last_send_time,
                   data_queue, connected_clients, sess, drain, now, nframes,
                   pkt, result>>
    /\ event' = [from |-> t, type |-> "recv_error", was_receiving |-> receiving]

\* current_time - self.last_send_time[channel] < 0.05
RateLimited(channel, current_time) ==
    current_time - last_send_time[channel] < MinIntervalMs

\* "if not points: return" (faulty variant: the test is left out)
HasPointsAlways(parsed_data) == TRUE

HasPoints(parsed_data) == parsed_data.points # <<>>

\* thread t has received a datagram in this step, and what the parser made of it
Received(t, parsed_data) ==
    [from |-> t, type |-> "datagram", was_receiving |-> receiving,
     outcome |-> IF IsNone(parsed_data) THEN "rejected"
                 ELSE IF parsed_data.points = <<>> THEN "empty"
                 ELSE "frame"]

\* recvfrom returns datagram d; it is parsed and, when a frame comes back,
\* on_lidar_data_received runs up to its rate test
RecvDatagram(t, d) ==
    /\ rcv[t].pc = "recv"
    /\ socket \in open_sockets
    /\ nframes + Cardinality({u \in Threads : rcv[u].pc = "cb"}) < MaxFrames
    /\ LET parsed_data == SysParsed[d]
       IN  /\ rcv' = [rcv EXCEPT ![t] =
                        IF IsNone(parsed_data) THEN [@ EXCEPT !.pc = "loop"]
                        ELSE IF ~HasPoints(parsed_data) THEN [@ EXCEPT !.pc = "loop"]
                        ELSE IF RateLimited(parsed_data.channel, now) THEN [@ EXCEPT !.pc = "loop"]
                        ELSE [pc |-> "cb", channel |-> parsed_data.channel,
                              pointsize |-> Len(parsed_data.points), current_time |-> now]]
           /\ event' = Received(t, parsed_data)
    /\ UNCHANGED <<receiving, running, socket, open_sockets, last_send_time,
                   data_queue, connected_clients, sess, drain, now, nframes,
                   pkt, result>>

\* queue.Queue.put_nowait: Full is raised only when maxsize > 0
put_nowait(q, item) ==
    IF maxsize > 0 /\ Len(q) >= maxsize THEN q ELSE Append(q, item)

\* self.last_send_time[channel] = current_time; the message is built and queued
CallbackForward(t) ==
    /\ rcv[t].pc = "cb"
    /\ last_send_time' = [last_send_time EXCEPT ![rcv[t].channel] = rcv[t].current_time]
    /\ data_queue' = put_nowait(data_queue,
                                [seq |-> nframes + 1, channel |-> rcv[t].channel,
                                 pointsize |-> rcv[t].pointsize,
                                 time |-> rcv[t].current_time])
    /\ nframes' = nframes + 1
    /\ rcv' = [rcv EXCEPT ![t] = [RcvNone EXCEPT !.pc = "loop"]]
    /\ UNCHANGED <<receiving, running, socket, open_sockets, connected_clients,
                   sess, drain, now, pkt, result>>
    /\ event' = NoEvent

\* the wall clock
Tick ==
    /\ now < StartTime + MaxTicks * TickMs
    /\ now' = now + TickMs
    /\ UNCHANGED <<receiving, running, socket, open_sockets, rcv, last_send_time,
                   data_queue, connected_clients, sess, drain, nframes,
                   pkt, result>>
    /\ event' = NoEvent

(***************************************************************************)
(* KanaviWebSocketServer.broadcast_data_loop and broadcast_to_clients.     *)
(***************************************************************************)
DrainAsleep == [DrainNone EXCEPT !.pc = "sleep"]

\* a fan-out in progress that a connect or a disconnect overlaps
Overlapped(d) == [k \in Threads |-> IF d[k].pc = "send" THEN [d[k] EXCEPT !.dirty = TRUE] ELSE d[k]]

\* the inner "while not self.data_queue.empty()" of task k, run from its test
\* with registry reg: frames are taken and dropped while nobody is registered;
\* otherwise the head is taken and the first send of its fan-out is awaited
PumpQueue(k, reg) ==
    IF data_queue = <<>> \/ reg = {}
    THEN /\ data_queue' = <<>>
         /\ drain' = [drain EXCEPT ![k] = DrainAsleep]
    ELSE /\ data_queue' = Tail(data_queue)
         /\ \E c \in reg :
               drain' = [drain EXCEPT ![k] =
                           [pc |-> "send", frame |-> Head(data_queue), cur |-> c,
                            todo |-> reg \ {c}, sent |-> <<>>, disconnected |-> {},
                            snap |-> reg, dirty |-> FALSE]]

\* "while self.receiving" of task k, when it is first scheduled or its sleep ends
DrainWake(k) ==
    /\ drain[k].pc = "sleep"
    /\ IF receiving
       THEN PumpQueue(k, connected_clients)
       ELSE /\ drain' = [drain EXCEPT ![k].pc = "done"]
            /\ UNCHANGED data_queue
    /\ UNCHANGED <<receiving, running, socket, open_sockets, rcv, last_send_time,
                   connected_clients, sess, now, nframes, pkt, result>>
    /\ event' = NoEvent

\* the sessions still to be sent to after the send to c ended (failed or not)
\* (faulty variant: the first failed send ends the loop)
RestAfterAbortOnFailure(todo, failed) == IF failed THEN {} ELSE todo

RestAfter(todo, failed) == todo

\* the sessions discarded after the loop
\* (faulty variant: every session of the snapshot is discarded when one send failed)
ToDiscardAll(snap, disconnected) == IF disconnected = {} THEN {} ELSE snap

ToDiscard(snap, disconnected) == disconnected

\* client.send raises (ConnectionClosed, or another exception)
SendFails(c) == sess[c].net = "closed"

\* client.send neither returns nor raises
SendBlocks(c) == sess[c].net = "stalled"

\* "await client.send(json_data)" of task k ends: it returned, or it raised and
\* the session went to `disconnected`; then the next send is awaited or, after
\* the last one, the failed sessions are discarded and the queue is looked at again
SendEnds(k) ==
    LET d == drain[k]
        c == d.cur
        failed == SendFails(c)
        sent == IF failed THEN d.sent ELSE Append(d.sent, c)
        disconnected == IF failed THEN d.disconnected \cup {c} ELSE d.disconnected
        rest == RestAfter(d.todo, failed)
        reg == connected_clients \ ToDiscard(d.snap, disconnected)
    IN  /\ d.pc = "send"
        /\ ~SendBlocks(c)
        /\ IF rest # {}
           THEN /\ \E c2 \in rest :
                      drain' = [drain EXCEPT ![k] =
                                  [d EXCEPT !.cur = c2, !.todo = rest \ {c2},
                                            !.sent = sent, !.disconnected = disconnected]]
                /\ UNCHANGED <<data_queue, connected_clients>>
           ELSE /\ connected_clients' = reg
                /\ PumpQueue(k, reg)
        /\ UNCHANGED <<receiving, running, socket, open_sockets, rcv, last_send_time,
                       sess, now, nframes, pkt, result>>
        /\ event' = NoEvent

(***************************************************************************)
(* handle_client, one coroutine per connection, and the connection itself. *)
(***************************************************************************)
\* a connection is accepted: the session is registered and the welcome is sent
Connect(c) ==
    /\ sess[c].pc = "new"
    /\ connected_clients' = connected_clients \cup {c}
    /\ sess' = [sess EXCEPT ![c] = [pc |-> "welcome", net |-> "open"]]
    /\ drain' = Overlapped(drain)
    /\ UNCHANGED <<receiving, running, socket, open_sockets, rcv, last_send_time,
                   data_queue, now, nframes, pkt, result>>
    /\ event' = NoEvent

\* the peer stops reading: a send to it does not return
NetStall(c) ==
    /\ sess[c].pc \in {"welcome", "serve", "reply"}
    /\ sess[c].net = "open"
    /\ sess' = [sess EXCEPT ![c].net = "stalled"]
    /\ UNCHANGED <<receiving, running, socket, open_sockets, rcv, last_send_time,
                   data_queue, connected_clients, drain, now, nframes,
                   pkt, result>>
    /\ event' = NoEvent

\* the peer reads again
NetResume(c) ==
    /\ sess[c].net = "stalled"
    /\ sess' = [sess EXCEPT ![c].net = "open"]
    /\ UNCHANGED <<receiving, running, socket, open_sockets, rcv, last_send_time,
                   data_queue, connected_clients, drain, now, nframes,
                   pkt, result>>
    /\ event' = NoEvent

\* the connection is closed or lost: a send on it raises ConnectionClosed
NetClose(c) ==
    /\ sess[c].pc \in {"welcome", "serve", "reply"}
    /\ sess[c].net # "closed"
    /\ sess' = [sess EXCEPT ![c].net = "closed"]
    /\ drain' = Overlapped(drain)
    /\ UNCHANGED <<receiving, running, socket, open_sockets, rcv, last_send_time,
                   data_queue, connected_clients, now, nframes,
                   pkt, result>>
    /\ event' = NoEvent

\* "await websocket.send(json.dumps(welcome))" returns: the message loop starts
WelcomeSent(c) ==
    /\ sess[c].pc = "welcome"
    /\ sess[c].net = "open"
    /\ sess' = [sess EXCEPT ![c].pc = "serve"]
    /\ UNCHANGED <<receiving, running, socket, open_sockets, rcv, last_send_time,
                   data_queue, connected_clients, drain, now, nframes,
                   pkt, result>>
    /\ event' = NoEvent

\* the welcome send raises: it is outside the try, so no finally clause runs
WelcomeFails(c) ==
    /\ sess[c].pc = "welcome"
    /\ sess[c].net = "closed"
    /\ sess' = [sess EXCEPT ![c].pc = "gone"]
    /\ UNCHANGED <<receiving, running, socket, open_sockets, rcv, last_send_time,
                   data_queue, connected_clients, drain, now, nframes,
                   pkt, result>>
    /\ event' = NoEvent

\* the reply of a message handler has been sent: back to "async for message"
ReplySent(c) ==
    /\ sess[c].pc = "reply"
    /\ sess[c].net = "open"
    /\ sess' = [sess EXCEPT ![c].pc = "serve"]
    /\ UNCHANGED <<receiving, running, socket, open_sockets, rcv, last_send_time,
                   data_queue, connected_clients, drain, now, nframes,
                   pkt, result>>
    /\ event' = NoEvent

\* the message loop ends or a reply raises ConnectionClosed: the finally clause
HandlerExit(c) ==
    /\ sess[c].pc \in {"serve", "reply"}
    /\ sess[c].net = "closed"
    /\ connected_clients' = connected_clients \ {c}
    /\ sess' = [sess EXCEPT ![c].pc = "gone"]
    /\ drain' = Overlapped(drain)
    /\ UNCHANGED <<receiving, running, socket, open_sockets, rcv, last_send_time,
                   data_queue, now, nframes, pkt, result>>
    /\ event' = NoEvent

\* the handler of session c sends its reply: the send returns at once on an
\* open connection and is awaited on a stalled one
Replying(c) == [sess EXCEPT ![c].pc = IF sess[c].net = "open" THEN "serve" ELSE "reply"]

(***************************************************************************)
(* KanaviWebSocketServer.handle_client_message.                            *)
(***************************************************************************)
\* the next thread (and drain task) a start_scan launches
NextThread == CHOOSE t \in Threads : rcv[t].pc = "none" /\ \A u \in 1..(t - 1) : rcv[u].pc # "none"

\* "if not self.receiving" (faulty variant: the test is left out)
MayStartAlways == TRUE

MayStart == ~receiving

\* "if self.receiving"
MayStop == receiving

StartScan(c) ==
    /\ sess[c].pc = "serve"
    /\ sess[c].net # "closed"
    /\ IF MayStart
       THEN /\ \E t \in Threads : rcv[t].pc = "none"
            /\ receiving' = TRUE
            /\ rcv' = [rcv EXCEPT ![NextThread].pc = "init"]
            /\ drain' = [drain EXCEPT ![NextThread] = DrainAsleep]
       ELSE UNCHANGED <<receiving, rcv, drain>>
    /\ sess' = Replying(c)
    /\ UNCHANGED <<running, socket, open_sockets, last_send_time, data_queue,
                   connected_clients, now, nframes, pkt, result>>
    /\ event' = Handled(c, "start_scan")

StopScan(c) ==
    /\ sess[c].pc = "serve"
    /\ sess[c].net # "closed"
    /\ IF MayStop
       THEN /\ receiving' = FALSE
            /\ running' = FALSE
       ELSE UNCHANGED <<receiving, running>>
    /\ sess' = Replying(c)
    /\ UNCHANGED <<socket, open_sockets, rcv, last_send_time, data_queue,
                   connected_clients, drain, now, nframes, pkt, result>>
    /\ event' = Handled(c, "stop_scan")

\* get_status or ping: only a reply
OtherMessage(c) ==
    /\ sess[c].pc = "serve"
    /\ sess[c].net # "closed"
    /\ sess' = Replying(c)
    /\ UNCHANGED <<receiving, running, socket, open_sockets, rcv, last_send_time,
                   data_queue, connected_clients, drain, now, nframes,
                   pkt, result>>
    /\ event' = Handled(c, "other")

\* session c's message of the given kind is handled in this step and answered
\* with a message of type `reply` ("none": nothing is sent)
Answered(c, type, reply) ==
    [from |-> c, type |-> type, was_receiving |-> receiving, reply |-> reply]

\* text that json.loads rejects: the JSONDecodeError clause sends an error
MalformedJson(c) ==
    /\ sess[c].pc = "serve"
    /\ sess[c].net # "closed"
    /\ sess' = Replying(c)
    /\ UNCHANGED <<receiving, running, socket, open_sockets, rcv, last_send_time,
                   data_queue, connected_clients, drain, now, nframes,
                   pkt, result>>
    /\ event' = Answered(c, "bad_json", "error")

\* an object whose "type" is missing or not one of the four: the else branch
\* sends an error
UnknownType(c) ==
    /\ sess[c].pc = "serve"
    /\ sess[c].net # "closed"
    /\ sess' = Replying(c)
    /\ UNCHANGED <<receiving, running, socket, open_sockets, rcv, last_send_time,
                   data_queue, connected_clients, drain, now, nframes,
                   pkt, result>>
    /\ event' = Answered(c, "unknown_type", "error")

\* the session after data.get raised AttributeError
AfterAttributeError(c) == [sess EXCEPT ![c] = [pc |-> "gone", net |-> "closed"]]

\* valid JSON that is not an object (a list, a string, a number, null):
\* data.get raises AttributeError, which no except clause of the handler
\* catches; it leaves handle_client through its finally clause, and the
\* connection is closed
NonObjectJson(c) ==
    /\ sess[c].pc = "serve"
    /\ sess[c].net # "closed"
    /\ sess' = AfterAttributeError(c)
    /\ connected_clients' = connected_clients \ {c}
    /\ drain' = Overlapped(drain)
    /\ UNCHANGED <<receiving, running, socket, open_sockets, rcv, last_send_time,
                   data_queue, now, nframes, pkt, result>>
    /\ event' = Answered(c, "non_object", "none")

(***************************************************************************)
(* Specifications.                                                         *)
(***************************************************************************)
ThreadStep(t) ==
    \/ \E ok \in BOOLEAN : ThreadInit(t, ok)
    \/ LoopTest(t)
    \/ RecvNothing(t)
    \/ \E d \in SysDatagrams : RecvDatagram(t, d)
    \/ CallbackForward(t)
    \/ RecvError(t)

DrainStep(k) ==
    \/ DrainWake(k)
    \/ SendEnds(k)

\* the whole server: every thread, task, handler and connection event
Init ==
    /\ SysInit
    /\ pkt = <<>>
    /\ result = None

Next ==
    \/ \E t \in Threads : ThreadStep(t)
    \/ \E k \in Threads : DrainStep(k)
    \/ \E c \in Sessions :
          \/ Connect(c) \/ NetStall(c) \/ NetResume(c) \/ NetClose(c)
          \/ WelcomeSent(c) \/ WelcomeFails(c) \/ ReplySent(c) \/ HandlerExit(c)
          \/ StartScan(c) \/ StopScan(c) \/ OtherMessage(c)
          \/ MalformedJson(c) \/ UnknownType(c) \/ NonObjectJson(c)
    \/ Tick

Spec == Init /\ [][Next]_vars

(***************************************************************************)
(* ScanSpec: scan control.  Sessions connect and send commands, the        *)
(* receive threads and drain tasks they launch run, and no datagram        *)
(* arrives from the multicast group.                                       *)
(***************************************************************************)
ScanNext ==
    \/ \E t \in Threads, ok \in BOOLEAN : ThreadInit(t, ok)
    \/ \E t \in Threads : LoopTest(t)
    \/ \E t \in Threads : RecvNothing(t)
    \/ \E k \in Threads : DrainWake(k)
    \/ \E c \in Sessions : Connect(c)
    \/ \E c \in Sessions : WelcomeSent(c)
    \/ \E c \in Sessions : StartScan(c)
    \/ \E c \in Sessions : StopScan(c)
    \/ \E c \in Sessions : OtherMessage(c)

ScanSpec == Init /\ [][ScanNext]_vars

\* the threads are scheduled by the operating system and the tasks by the
\* event loop: a step of one that stays possible is taken
ScanFairness ==
    /\ \A t \in Threads : WF_vars(ThreadInit(t, TRUE) \/ ThreadInit(t, FALSE))
    /\ \A t \in Threads : WF_vars(LoopTest(t))
    /\ \A t \in Threads : WF_vars(RecvNothing(t))
    /\ \A k \in Threads : WF_vars(DrainWake(k))

FairScanSpec == ScanSpec /\ ScanFairness

(***************************************************************************)
(* FeedSpec: the receive path.  One session starts and stops the scan,     *)
(* datagrams arrive as the clock advances, and the drain tasks send what   *)
(* is queued to that session.                                              *)
(***************************************************************************)
\* the session that sends the scan commands: the first to connect
Operator == CHOOSE c \in Sessions : \A d \in Sessions : c <= d

FeedNext ==
    \/ \E t \in Threads, ok \in BOOLEAN : ThreadInit(t, ok)
    \/ \E t \in Threads : LoopTest(t)
    \/ \E t \in Threads : RecvNothing(t)
    \/ \E t \in Threads, d \in SysDatagrams : RecvDatagram(t, d)
    \/ \E t \in Threads : CallbackForward(t)
    \/ \E k \in Threads : DrainWake(k)
    \/ \E k \in Threads : SendEnds(k)
    \/ Connect(Operator)
    \/ WelcomeSent(Operator)
    \/ StartScan(Operator)
    \/ StopScan(Operator)
    \/ Tick

FeedSpec == Init /\ [][FeedNext]_vars

(***************************************************************************)
(* FanSpec: the fan-out.  It starts where the receive path has queued      *)
(* MaxFrames frames and the operator's start_scan, stop_scan, start_scan   *)
(* have left two drain tasks alive, neither of them scheduled yet: the     *)
(* least number with which fan-outs overlap.  From there the drain tasks   *)
(* run while sessions connect and their connections close.                 *)
(***************************************************************************)
\* the frames come from channels 0 and 1 in turn, a pair every MinIntervalMs
FrameChannel(i) == (i - 1) % 2

FrameTime(i) == StartTime + (((i - 1) \div 2) * MinIntervalMs)

QueuedFrames(n) ==
    [i \in 1..n |-> [seq |-> i, channel |-> FrameChannel(i), pointsize |-> PointsOther,
                     time |-> FrameTime(i)]]

\* the time last_send_time holds for a channel once n frames are forwarded
LastForward(c, n) ==
    LET on == {i \in 1..n : FrameChannel(i) = c}
    IN  IF on = {} THEN 0 ELSE FrameTime(CHOOSE i \in on : \A j \in on : j <= i)

FanStart(n, m) ==
    /\ receiving = TRUE
    /\ running = FALSE
    /\ socket = 1
    /\ open_sockets = {1}
    /\ rcv = [t \in Threads |->
                IF t = 1 THEN [RcvNone EXCEPT !.pc = "recv"]
                ELSE IF t <= m THEN [RcvNone EXCEPT !.pc = "init"]
                ELSE RcvNone]
    /\ last_send_time = [c \in Channels |-> LastForward(c, n)]
    /\ data_queue = QueuedFrames(n)
    /\ connected_clients = {Operator}
    /\ sess = [c \in Sessions |->
                 IF c = Operator THEN [pc |-> "serve", net |-> "open"]
                 ELSE [pc |-> "new", net |-> "closed"]]
    /\ drain = [k \in Threads |-> IF k <= m THEN DrainAsleep ELSE DrainNone]
    /\ now = FrameTime(n)
    /\ nframes = n
    /\ event = [from |-> Operator, type |-> "start_scan", was_receiving |-> FALSE]

FanInit ==
    /\ FanStart(MaxFrames, 2)
    /\ pkt = <<>>
    /\ result = None

FanNext ==
    \/ \E k \in Threads : DrainWake(k)
    \/ \E k \in Threads : SendEnds(k)
    \/ \E c \in Sessions : Connect(c)
    \/ \E c \in Sessions : NetClose(c)
    \/ \E c \in Sessions : WelcomeSent(c)
    \/ \E c \in Sessions : WelcomeFails(c)
    \/ \E c \in Sessions : HandlerExit(c)

FanSpec == FanInit /\ [][FanNext]_vars

(***************************************************************************)
(* FairFanSpec: the fan-out with peers that may stop reading.  The event   *)
(* loop runs a task that wakes from its sleep, and a send returns if the   *)
(* peer reads again and again.                                             *)
(***************************************************************************)
StallNext ==
    \/ FanNext
    \/ \E c \in Sessions : NetStall(c)
    \/ \E c \in Sessions : NetResume(c)

FanFairness ==
    /\ \A k \in Threads : WF_vars(DrainWake(k))
    /\ \A k \in Threads : SF_vars(SendEnds(k))

FairFanSpec == FanInit /\ [][StallNext]_vars /\ FanFairness

(***************************************************************************)
(* SessionSpec: the connections and their messages, with no scan running.  *)
(***************************************************************************)
SessionNext ==
    \/ \E c \in Sessions : Connect(c)
    \/ \E c \in Sessions : NetStall(c)
    \/ \E c \in Sessions : NetResume(c)
    \/ \E c \in Sessions : NetClose(c)
    \/ \E c \in Sessions : WelcomeSent(c)
    \/ \E c \in Sessions : WelcomeFails(c)
    \/ \E c \in Sessions : ReplySent(c)
    \/ \E c \in Sessions : HandlerExit(c)
    \/ \E c \in Sessions : OtherMessage(c)
    \/ \E c \in Sessions : MalformedJson(c)
    \/ \E c \in Sessions : UnknownType(c)
    \/ \E c \in Sessions : NonObjectJson(c)

SessionSpec == Init /\ [][SessionNext]_vars

(***************************************************************************)
(* RecvSpec: the receive threads of the operator's scans, whose receives   *)
(* time out or fail.                                                       *)
(***************************************************************************)
RecvNext ==
    \/ \E t \in Threads, ok \in BOOLEAN : ThreadInit(t, ok)
    \/ \E t \in Threads : LoopTest(t)
    \/ \E t \in Threads : RecvNothing(t)
    \/ \E t \in Threads : RecvError(t)
    \/ \E k \in Threads : DrainWake(k)
    \/ Connect(Operator)
    \/ WelcomeSent(Operator)
    \/ StartScan(Operator)
    \/ StopScan(Operator)

RecvSpec == Init /\ [][RecvNext]_vars

(***************************************************************************)
(* IngestSpec: one scan.  The operator starts it, its thread receives      *)
(* datagrams as the clock advances, and its drain task sends what is       *)
(* queued to the operator.                                                 *)
(***************************************************************************)
IngestNext ==
    \/ Connect(Operator)
    \/ WelcomeSent(Operator)
    \/ StartScan(Operator)
    \/ \E t \in Threads : ThreadInit(t, TRUE)
    \/ \E t \in Threads : LoopTest(t)
    \/ \E t \in Threads, d \in SysDatagrams : RecvDatagram(t, d)
    \/ \E t \in Threads : CallbackForward(t)
    \/ \E k \in Threads : DrainWake(k)
    \/ \E k \in Threads : SendEnds(k)
    \/ Tick

IngestSpec == Init /\ [][IngestNext]_vars

(***************************************************************************)
(* PacketSpec: parse_kanavi_packet on its own, called once on a datagram.  *)
(***************************************************************************)
Truncated(p) == SubSeq(p, 1, Len(p) - 1)

SmallPackets ==
    {MkPacket(start, product_line, 1, cmd_hi, cmd_lo, declared, Payload(declared, 1, 50), flip) :
        start \in {StartMarker, StartMarker + 1},
        product_line \in {3, 6, 9},
        cmd_hi \in {DistanceTag, DistanceTag - 1},
        cmd_lo \in {ChannelTag, ChannelTag + 1, ChannelTag + 15, ChannelTag - 16, ChannelTag + 16},
        declared \in {0, 2, 4},
        flip \in {0, 1, 128}}

\* the payload is longer than declared: the byte at the checksum's place is data
LongerPackets ==
    {MkPacket(StartMarker, 3, 1, DistanceTag, ChannelTag + 2, 2, <<d, f, 9, 9>>, 0) :
        d \in {0, 27, 250}, f \in {0, 27, 218}}

FullPackets ==
    {MkPacket(StartMarker, product_line, 1, DistanceTag, ChannelTag + 3, declared,
              Payload(declared, d, 7), flip) :
        product_line \in {3, 6}, declared \in {2 * PointsOther, 2 * PointsR4},
        d \in {0, 2}, flip \in {0, 64}}

\* a payload of n pairs, some of them (0, 0), followed by `extra` bytes
MixedPayload(n, extra) ==
    [k \in 1..((2 * n) + extra) |->
        LET i == (k - 1) \div 2
        IN  IF k > 2 * n THEN 1 + (k % 3)
            ELSE IF k % 2 = 1 THEN (IF i % 3 = 0 THEN 0 ELSE i % 5)
            ELSE (IF i % 2 = 0 THEN 0 ELSE 30 + (i % 200))]

MixedPackets ==
    {MkPacket(StartMarker, product_line, 1, DistanceTag, ChannelTag + 1,
              (2 * n) + extra, MixedPayload(n, extra), flip) :
        product_line \in {3, 6}, n \in {PointsOther, PointsR4}, extra \in {0, 1, 2},
        flip \in {0, 2}}

\* the byte before, or after, the checksum is the checksum with its lowest bit
\* flipped
ShiftedHeader(declared) ==
    <<StartMarker, 3, 1, DistanceTag, ChannelTag, declared \div 256, declared % 256>>

ShiftPackets ==
    {ShiftedHeader(1) \o <<Xor(XorRange(ShiftedHeader(1), HeaderLen), 1),
                           XorRange(ShiftedHeader(1), HeaderLen)>>,
     ShiftedHeader(0) \o <<XorRange(ShiftedHeader(0), HeaderLen),
                           Xor(XorRange(ShiftedHeader(0), HeaderLen), 1)>>}

ShortInputs == {<<>>, <<StartMarker>>, <<StartMarker, 3, 1, DistanceTag, ChannelTag, 0, 0>>}

PacketInputs ==
    SmallPackets \cup {Truncated(p) : p \in SmallPackets} \cup LongerPackets
        \cup FullPackets \cup ShortInputs \cup MixedPackets \cup ShiftPackets

PacketInit ==
    /\ SysInit
    /\ pkt \in PacketInputs
    /\ result = Pending

Decode ==
    /\ IsPending(result)
    /\ result' = parse_kanavi_packet(pkt)
    /\ UNCHANGED <<sysvars, pkt>>

PacketSpec == PacketInit /\ [][Decode]_vars

(***************************************************************************)
(* FlipSpec: a datagram the parser accepts is sent again with one bit of   *)
(* its header or of its checksum flipped in transit.                       *)
(***************************************************************************)
RECURSIVE Pow2(_)
Pow2(n) == IF n = 0 THEN 1 ELSE 2 * Pow2(n - 1)

FlipBit(p, pos, bit) == [p EXCEPT ![pos + 1] = Xor(@, Pow2(bit))]

IsFlipped(r) == "flipped" \in DOMAIN r

\* the header bytes and the checksum byte of an accepted datagram
GuardedBytes(p) == (0..(HeaderLen - 1)) \cup {HeaderLen + UnpackBE16(p, 5)}

Flip(pos, bit) ==
    /\ ~IsPending(result)
    /\ ~IsNone(result)
    /\ ~IsFlipped(result)
    /\ pos \in GuardedBytes(pkt)
    /\ result' = [flipped |-> <<pos, bit>>,
                  outcome |-> parse_kanavi_packet(FlipBit(pkt, pos, bit))]
    /\ UNCHANGED <<sysvars, pkt>>

FlipNext ==
    \/ Decode
    \/ \E pos \in 0..(HeaderLen + (2 * PointsR4) + 2), bit \in 0..7 : Flip(pos, bit)

FlipSpec == PacketInit /\ [][FlipNext]_vars

(***************************************************************************)
(* Claims.                                                                 *)
(***************************************************************************)
InReceiveLoop(t) == rcv[t].pc \in {"loop", "recv", "cb"}

Launched == {t \in Threads : rcv[t].pc # "none"}

TasksAlive == {k \in Threads : drain[k].pc \in {"sleep", "send"}}

\* C1: at most one receive loop (start_receiving past its socket set-up and
\* not yet out of its while loop) is executing at any time.
C1_AtMostOneReceiveLoop == Cardinality({t \in Threads : InReceiveLoop(t)}) <= 1

\* the fan-out of task k ends in this step: its frame is no longer the one it sends
FanoutEnds(k) == drain[k].pc = "send" /\ drain'[k].frame # drain[k].frame

\* the sessions the ending fan-out of task k sent its frame to, one entry per
\* send that returned, and those whose send raised
SentAtEnd(k) ==
    IF SendFails(drain[k].cur) THEN drain[k].sent ELSE Append(drain[k].sent, drain[k].cur)

FailedAtEnd(k) ==
    drain[k].disconnected \cup (IF SendFails(drain[k].cur) THEN {drain[k].cur} ELSE {})

Count(seq, x) == Cardinality({i \in DOMAIN seq : seq[i] = x})

\* C2: when the fan-out of a frame ends, every session of the snapshot whose
\* send did not raise has been sent the frame exactly once, whichever other
\* sends raised, and a session whose send raised has been sent nothing.
C2_EachSessionSentOnce ==
    [][\A k \in Threads :
          FanoutEnds(k) =>
             \A c \in drain[k].snap :
                IF c \in FailedAtEnd(k)
                THEN Count(SentAtEnd(k), c) = 0
                ELSE Count(SentAtEnd(k), c) = 1]_vars

\* a fan-out in which one send raised is about to end with a send that returns
C2_Witness ==
    \E k \in Threads :
       /\ drain[k].pc = "send"
       /\ drain[k].todo = {}
       /\ drain[k].disconnected # {}
       /\ sess[drain[k].cur].net = "open"

\* C3: when a fan-out that no connect or disconnect overlapped ends, the
\* registry is the registry at its start less exactly the sessions whose
\* send raised.
C3_RegistryLessFailed ==
    [][\A k \in Threads :
          (FanoutEnds(k) /\ ~drain[k].dirty) =>
             connected_clients' = drain[k].snap \ FailedAtEnd(k)]_vars

\* a fan-out that nothing overlapped, in which one send raised, is about to
\* end with a send that returns
C3_Witness ==
    \E k \in Threads :
       /\ drain[k].pc = "send"
       /\ ~drain[k].dirty
       /\ drain[k].todo = {}
       /\ drain[k].disconnected # {}
       /\ ~SendFails(drain[k].cur)
       /\ ~SendBlocks(drain[k].cur)

\* C4: a session that waits for its turn in a fan-out, and whose own send
\* would return, gets its turn whatever the other sessions' sends do.
C4_NoSessionStallsOthers ==
    \A k \in Threads, c \in Sessions :
       (drain[k].pc = "send" /\ c \in drain[k].todo /\ sess[c].net = "open")
          ~> ~(drain[k].pc = "send" /\ c \in drain[k].todo /\ sess[c].net = "open")

\* the fields of the datagram the parser reads before the checksum
DeclaredLength(p) == UnpackBE16(p, 5)

C5_Pre(p) ==
    /\ Len(p) >= HeaderLen
    /\ At(p, 0) = StartMarker
    /\ At(p, 3) = DistanceTag
    /\ At(p, 4) \div 16 = ChannelTag \div 16
    /\ Len(p) >= HeaderLen + DeclaredLength(p) + 1

\* C5: a datagram with the start marker, a command 0xDDCx and at least
\* 7 + data_length + 1 bytes is parsed to a frame exactly when its byte at
\* 7 + data_length is the XOR of its bytes 0 to 6.
C5_ChecksumDecides ==
    (~IsPending(result) /\ C5_Pre(pkt)) =>
       (~IsNone(result) <=>
           At(pkt, HeaderLen + DeclaredLength(pkt)) = XorRange(pkt, HeaderLen))

C5_Witness == ~IsPending(result) /\ C5_Pre(pkt) /\ ~IsNone(result) /\ result.num_points > 0

\* C6: two frames forwarded on one channel are at least 50 ms apart (of two
\* calls within 50 ms, the second is dropped).
C6_ForwardThenDrop ==
    \A i, j \in DOMAIN data_queue :
       (i < j /\ data_queue[i].channel = data_queue[j].channel) =>
          data_queue[j].time - data_queue[i].time >= MinIntervalMs

\* C7: the queue has a capacity, and never holds more frames than it.
C7_QueueBounded ==
    data_queue # <<>> => (maxsize > 0 /\ Len(data_queue) <= maxsize)

ScanState == <<receiving, running, socket, open_sockets, rcv, drain, last_send_time,
               data_queue, connected_clients>>

\* C8: a start_scan handled while scanning, and a stop_scan handled while
\* idle, change nothing; a start_scan handled while idle launches exactly
\* one receive thread and one drain task and sets the state to scanning.
C8_RedundantCommandNoOp ==
    [][/\ (event'.type = "start_scan" /\ receiving) => UNCHANGED ScanState
       /\ (event'.type = "stop_scan" /\ ~receiving) => UNCHANGED ScanState
       /\ (event'.type = "start_scan" /\ ~receiving) =>
             /\ receiving'
             /\ Cardinality(Launched') = Cardinality(Launched) + 1
             /\ Cardinality(TasksAlive') = Cardinality(TasksAlive) + 1]_vars

\* a second start_scan in a row has just been handled, with one thread launched
C8_Witness ==
    /\ event.type = "start_scan"
    /\ event.was_receiving
    /\ Cardinality(Launched) = 1

\* the thread the latest start_scan launched
LatestThread == CHOOSE t \in Launched : \A u \in Launched : u <= t

\* C9: when the socket set-up of the thread that the latest start_scan
\* launched has failed, the state is idle and no receive loop is running.
C9_FailedStartLeavesIdle ==
    (Launched # {} /\ rcv[LatestThread].pc = "failed") =>
       (~receiving /\ \A t \in Threads : ~InReceiveLoop(t))

Quiet ==
    /\ \A t \in Threads : rcv[t].pc \in {"none", "done", "failed"}
    /\ TasksAlive = {}

\* C10: once a stop_scan has been handled, and unless a start_scan follows,
\* every receive loop and every drain loop eventually exits.
C10_StopEndsLoops == (~receiving) ~> (receiving \/ Quiet)

\* C12: flipping one bit of the header bytes 0 to 6, or of the checksum
\* byte, of a datagram the parser accepts gives a datagram it rejects.
C12_BitFlipRejected == IsFlipped(result) => IsNone(result.outcome)

Decoded == ~IsPending(result)

Accepted == Decoded /\ ~IsNone(result)

\* the header checks of the parser, read off the datagram
HeaderChecksPass(p) ==
    /\ Len(p) >= MinPacketLen
    /\ C5_Pre(p)
    /\ At(p, HeaderLen + DeclaredLength(p)) = XorRange(p, HeaderLen)

\* the pair (d_i, f_i) of the datagram's payload, as 100 * d_i + f_i
PairDistance(p, i) == (100 * At(p, HeaderLen + (2 * i))) + At(p, HeaderLen + (2 * i) + 1)

ExpectedOf(p) == IF At(p, 1) = 6 THEN PointsR4 ELSE PointsOther

Positive(p) == {i \in 0..(ExpectedOf(p) - 1) : PairDistance(p, i) > 0}

HasAllPairs(p) == HeaderChecksPass(p) /\ DeclaredLength(p) >= 2 * ExpectedOf(p)

\* C14: a packet that passes the header checks and holds at least
\* expected_points pairs is returned as a frame whose points are exactly the
\* indices i with 100 * d_i + f_i > 0, each once, with distance d_i + f_i / 100.
C14_PointsAreThePositivePairs ==
    (Decoded /\ HasAllPairs(pkt)) =>
       /\ ~IsNone(result)
       /\ Len(result.points) = Cardinality(Positive(pkt))
       /\ \A i \in Positive(pkt) :
             \E j \in DOMAIN result.points : result.points[j].point_index = i
       /\ \A j \in DOMAIN result.points :
             /\ result.points[j].point_index \in Positive(pkt)
             /\ result.points[j].distance = PairDistance(pkt, result.points[j].point_index)

\* a frame of a payload in which some pairs are (0, 0) and some are not
C14_Witness ==
    /\ Decoded
    /\ HasAllPairs(pkt)
    /\ Positive(pkt) # {}
    /\ Cardinality(Positive(pkt)) < ExpectedOf(pkt)
    /\ ~IsNone(result)

FrameFields ==
    {"points", "product_line", "lidar_id", "channel", "model_info", "num_points",
     "raw_command", "packet_size", "data_length"}

\* C15: whatever bytes it is given, the parser returns a rejection or a
\* complete frame, and a frame only when the length, start marker, command
\* tag, declared length and checksum checks all pass.
C15_FrameOnlyWhenChecksPass ==
    Decoded =>
       \/ IsNone(result)
       \/ /\ HeaderChecksPass(pkt)
          /\ DOMAIN result = FrameFields
          /\ result.num_points = Len(result.points)
          /\ result.packet_size = Len(pkt)
          /\ result.data_length = DeclaredLength(pkt)
          /\ result.raw_command = UnpackBE16(pkt, 3)

\* a datagram with a right checksum and a command low byte outside 0xC0..0xCF
\* has been rejected
C15_Witness ==
    /\ Decoded
    /\ IsNone(result)
    /\ Len(pkt) >= MinPacketLen
    /\ At(pkt, 0) = StartMarker
    /\ At(pkt, 3) = DistanceTag
    /\ At(pkt, 4) \div 16 # ChannelTag \div 16
    /\ Len(pkt) >= HeaderLen + DeclaredLength(pkt) + 1
    /\ At(pkt, HeaderLen + DeclaredLength(pkt)) = XorRange(pkt, HeaderLen)

\* the length of the detection block that follows the distance block
BlockLen(p) == DeclaredLength(p) - (2 * ExpectedOf(p))

\* C16: with a detection block of length L >= 1 after the distance block,
\* the point at index i has detection block[i mod L].
C16_DetectionWraps ==
    (Accepted /\ BlockLen(pkt) >= 1) =>
       \A j \in DOMAIN result.points :
          result.points[j].detection =
             At(pkt, HeaderLen + (2 * ExpectedOf(pkt))
                       + (result.points[j].point_index % BlockLen(pkt)))

\* C18: in every frame the parser returns the points are in strictly
\* increasing point_index order and carry the frame's channel, which is the
\* low nibble of the command's low byte.
C18_PointsOrderedOnChannel ==
    Accepted =>
       /\ \A j, k \in DOMAIN result.points :
             j < k => result.points[j].point_index < result.points[k].point_index
       /\ \A j \in DOMAIN result.points : result.points[j].channel = result.channel
       /\ result.channel = At(pkt, 4) % 16

C18_Witness == Accepted /\ Len(result.points) >= 2 /\ result.channel > 0

\* C13: in every state a receive loop is running if and only if the
\* receiving flag (the SCANNING state) is true.
C13_ActiveIffScanning == (\E t \in Threads : InReceiveLoop(t)) <=> receiving

\* C17: no frame is being sent, by any fan-out, to a session that has been
\* removed from the registry.
C17_NoSendToRemoved ==
    \A k \in Threads : drain[k].pc = "send" => drain[k].cur \in connected_clients

\* C20: once the connection handler of a session has terminated, the session
\* is not in the registry.
C20_TerminatedNotRegistered ==
    \A c \in Sessions : sess[c].pc = "gone" => c \notin connected_clients

MalformedKinds == {"bad_json", "non_object", "unknown_type"}

\* C11: a message that is not valid JSON, not a JSON object, or of an unknown
\* type is answered with an error message, and afterwards the connection is
\* still served and the session still registered.
C11_MalformedAnsweredWithError ==
    event.type \in MalformedKinds =>
       /\ event.reply = "error"
       /\ sess[event.from].pc \in {"serve", "reply"}
       /\ event.from \in connected_clients

\* C19: a receive that raises never ends the loop: the thread goes back to
\* the loop test and from there to the next receive; a thread leaves its
\* loop only when running is false, and running becomes false only when a
\* stop_scan is handled.
C19_ErrorNeverEndsLoop ==
    [][/\ \A t \in Threads :
             /\ (rcv[t].pc = "recv" /\ rcv'[t].pc # "recv") => rcv'[t].pc \in {"loop", "cb"}
             /\ (rcv[t].pc = "loop" /\ rcv'[t].pc # "loop" /\ running) => rcv'[t].pc = "recv"
             /\ (InReceiveLoop(t) /\ ~InReceiveLoop(t)') => ~running
       /\ (running /\ ~running') => (event'.type = "stop_scan" /\ event'.was_receiving)]_vars

\* a receive has just failed and its thread is back at the loop test, with
\* running still true
C19_Witness ==
    /\ event.type = "recv_error"
    /\ rcv[event.from].pc = "loop"
    /\ running

\* C21: a datagram that the parser rejects, or that parses to a frame with
\* no points, changes neither the queue nor any channel's last_send_time,
\* starts no send to any session, and leaves its thread at the loop test
\* with nothing to forward.
C21_RejectedHasNoEffect ==
    [][(event'.type = "datagram" /\ event'.outcome \in {"rejected", "empty"}) =>
          /\ UNCHANGED <<data_queue, last_send_time, drain, nframes, connected_clients, sess>>
          /\ rcv'[event'.from] = [rcv[event'.from] EXCEPT !.pc = "loop"]]_vars

\* a frame with no points has just been received while a frame is queued
C21_Witness ==
    /\ event.type = "datagram"
    /\ event.outcome = "empty"
    /\ data_queue # <<>>

\* C23: at most one broadcast_data_loop task is alive at any time.
C23_AtMostOneDrainTask == Cardinality(TasksAlive) <= 1

\* a send of task k to session c starts in this step
SendStarts(k, c) ==
    /\ drain'[k].pc = "send"
    /\ drain'[k].cur = c
    /\ \/ drain[k].pc # "send"
       \/ drain[k].cur # c
       \/ drain[k].frame # drain'[k].frame

\* C24: while the state is IDLE (a stop_scan is the last scan command
\* handled), no send of a frame to any session starts.
C24_NoSendWhileIdle ==
    [][\A k \in Threads, c \in Sessions : SendStarts(k, c) => receiving]_vars

\* the sessions for which a send of task k's frame has returned
ReceivedFrom(k) == {drain[k].sent[i] : i \in DOMAIN drain[k].sent}

\* C22: a session receives frames in the order they were enqueued: the send
\* of a frame to a session with an open connection never starts when a frame
\* enqueued later has already been received by that session.
C22_FramesInOrder ==
    [][\A k1, k2 \in Threads, c \in Sessions :
          (/\ SendStarts(k1, c)
           /\ sess'[c].net = "open"
           /\ k2 # k1
           /\ drain[k2].pc = "send"
           /\ drain[k2].frame.seq > drain'[k1].frame.seq)
             => c \notin ReceivedFrom(k2)]_vars

=============================================================================
